---------------------------- MODULE Spec2Model ----------------------------
(***************************************************************************)
(* Model of hungarian::minimize (src/src/lib.rs), the Hungarian / Munkres  *)
(* assignment algorithm on a rectangular cost matrix.                      *)
(*                                                                         *)
(* One call of minimize is one behaviour.  The call's arguments (matrix,   *)
(* height, width) are chosen in Init; every other variable is a local of   *)
(* the function.  Each action is one numbered step of the source.          *)
(*                                                                         *)
(* Conventions                                                             *)
(*   - the slice `matrix` is a sequence: Rust's matrix[k] is matrix[k+1];  *)
(*   - Array2 grids are functions m[i][j] over 0..h-1 and 0..w-1;          *)
(*   - FixedBitSets are the sets of the indices that are on;               *)
(*   - Option<T> is a sequence of length <= 1: None is <<>>, Some(x) <<x>>.*)
(***************************************************************************)
EXTENDS Integers, Sequences, FiniteSets

VARIABLES
    matrix,     \* argument: the costs, row-major
    height,     \* argument
    width,      \* argument
    pc,         \* position in minimize: start, step1 .. step4, branch, done, panic
    rotated,    \* local `rotated`
    h,          \* local `h` (working rows)
    w,          \* local `w` (working columns)
    m,          \* local `m`, the working (reduced) matrix
    stars,      \* local `stars`
    primes,     \* local `primes`
    row_cover,  \* local `row_cover`
    col_cover,  \* local `col_cover`
    verify,     \* local `verify`
    uncovered,  \* local `uncovered` (Option<(usize, usize)>)
    result,     \* the returned Vec<Option<usize>> (meaningful when pc = "done")
    augments,   \* history: number of executions of Step 5 so far
    previous,   \* history: how the previous call on these arguments ended, if any
    overflow_checks \* build: TRUE if arithmetic overflow panics, FALSE if it wraps

vars == <<matrix, height, width, pc, rotated, h, w, m, stars, primes,
          row_cover, col_cover, verify, uncovered, result, augments, previous,
          overflow_checks>>

----------------------------------------------------------------------------
(* Bounds of the checked input space. *)

MaxHeight == 3
MaxWidth == 3
MaxTotal == 4
MaxCells == 6
MaxSlack == 1

(* N::max_value() of the cost type; N is instantiated at i16. *)
MaxValue == 32767

----------------------------------------------------------------------------
(* Option<T> *)

None == <<>>
Some(x) == <<x>>
IsSome(o) == o # <<>>
Unwrap(o) == o[1]

SetMin(S) == CHOOSE x \in S : \A y \in S : x <= y
SetMax(S) == CHOOSE x \in S : \A y \in S : x >= y

(* (0..n).find(p): the first index of S, a set of indices, if any. *)
Find(S) == IF S = {} THEN None ELSE Some(SetMin(S))

----------------------------------------------------------------------------
(* Step 0: rotate and clamp. *)

Rotated(ht, wd) == wd < ht

WorkingH(ht, wd) == IF Rotated(ht, wd) THEN wd ELSE ht

(* WorkingW without the swap of the rotation. *)
WorkingWNotSwapped(ht, wd) == wd

WorkingW(ht, wd) == IF Rotated(ht, wd) THEN ht ELSE wd

(* Target without the column reversal of the rotation. *)
TargetNoReverse(ht, wd, i, j) == IF Rotated(ht, wd) THEN <<j, i>> ELSE <<i, j>>

(* Target that swaps the indices of a call that does not rotate. *)
TargetSwapped(ht, wd, i, j) == IF Rotated(ht, wd) THEN <<wd - 1 - j, i>> ELSE <<j, i>>

(* The cell of m that the copy loop writes for the input cell (i, j). *)
Target(ht, wd, i, j) == IF Rotated(ht, wd) THEN <<wd - 1 - j, i>> ELSE <<i, j>>

(* IndexPanics with the bound off by one. *)
IndexPanicsOffByOne(mat, ht, wd) ==
    \E i \in 0..(ht - 1), j \in 0..(wd - 1) : wd * i + j + 1 >= Len(mat)

(* matrix[width * i + j] of the copy loop is an out-of-bounds slice index. *)
IndexPanics(mat, ht, wd) ==
    \E i \in 0..(ht - 1), j \in 0..(wd - 1) : wd * i + j >= Len(mat)

(* CopyMatrix without the test `cost < N::zero()`: every cost is copied. *)
CopyMatrixNoClamp(mat, ht, wd) ==
    [r \in 0..(WorkingH(ht, wd) - 1) |->
        [c \in 0..(WorkingW(ht, wd) - 1) |->
            LET p == CHOOSE q \in (0..(ht - 1)) \X (0..(wd - 1)) :
                         Target(ht, wd, q[1], q[2]) = <<r, c>>
            IN  mat[wd * p[1] + p[2] + 1]]]

(* The working matrix after the copy loop: zeros, overwritten at Target(i, j)
   by every input cell (i, j) whose cost is not negative. *)
CopyMatrix(mat, ht, wd) ==
    [r \in 0..(WorkingH(ht, wd) - 1) |->
        [c \in 0..(WorkingW(ht, wd) - 1) |->
            LET src == {p \in (0..(ht - 1)) \X (0..(wd - 1)) :
                           /\ Target(ht, wd, p[1], p[2]) = <<r, c>>
                           /\ ~(mat[wd * p[1] + p[2] + 1] < 0)}
            IN  IF src = {} THEN 0
                ELSE LET p == CHOOSE q \in src : TRUE
                     IN  mat[wd * p[1] + p[2] + 1]]]

----------------------------------------------------------------------------
(* Step 1: reduce each row by its smallest element. *)

RowMin(row) == SetMin({row[c] : c \in DOMAIN row})

(* ReduceRows that leaves the first row as it is. *)
ReduceRowsButFirst(mm) ==
    [r \in DOMAIN mm |-> [c \in DOMAIN mm[r] |->
        mm[r][c] - (IF r = 0 THEN 0 ELSE RowMin(mm[r]))]]

ReduceRows(mm) == [r \in DOMAIN mm |-> [c \in DOMAIN mm[r] |-> mm[r][c] - RowMin(mm[r])]]

----------------------------------------------------------------------------
(* Step 2: star a zero in every row whose column holds no star yet. *)

NoMarks(hh, ww) == [r \in 0..(hh - 1) |-> [c \in 0..(ww - 1) |-> FALSE]]

RECURSIVE GreedyScan(_, _, _, _, _, _, _)
GreedyScan(mm, hh, ww, i, j, st, cc) ==
    IF i >= hh THEN st
    ELSE IF j >= ww THEN GreedyScan(mm, hh, ww, i + 1, 0, st, cc)
    ELSE IF j \in cc THEN GreedyScan(mm, hh, ww, i, j + 1, st, cc)
    ELSE IF mm[i][j] = 0
         THEN GreedyScan(mm, hh, ww, i + 1, 0,
                         [st EXCEPT ![i][j] = TRUE], cc \cup {j})
    ELSE GreedyScan(mm, hh, ww, i, j + 1, st, cc)

(* GreedyStars that looks at the first zero of a row only: the row gets no
   star if the column of that zero is covered. *)
GreedyStarsFirstZero(mm, hh, ww, st, cc) ==
    GreedyScan([i \in 0..(hh - 1) |-> [j \in 0..(ww - 1) |->
                   IF \E jj \in 0..(j - 1) : mm[i][jj] = 0 THEN 1 ELSE mm[i][j]]],
               hh, ww, 0, 0, st, cc)

(* GreedyStars that does not consult col_cover: the first zero of every row
   is starred. *)
GreedyStarsNoCover(mm, hh, ww, st, cc) ==
    [i \in 0..(hh - 1) |-> [j \in 0..(ww - 1) |->
        \/ st[i][j]
        \/ /\ mm[i][j] = 0
           /\ \A jj \in 0..(j - 1) : mm[i][jj] # 0]]

(* The stars after the loop of Step 2, which sets stars in the grid st and
   consults and extends the column cover cc as it finds them. *)
GreedyStars(mm, hh, ww, st, cc) == GreedyScan(mm, hh, ww, 0, 0, st, cc)

----------------------------------------------------------------------------
(* Step 3: cover the starred columns; extract the result. *)

StarredColumns(st, hh, ww) ==
    {j \in 0..(ww - 1) : \E i \in 0..(hh - 1) : st[i][j]}

(* assign: for every row the first starred column (Option; the code unwraps). *)
StarOfRow(st, ww, i) == Find({j \in 0..(ww - 1) : st[i][j]})

(* Extract without the rotation back. *)
ExtractUnrotated(st, hh, ww, rot) ==
    [k \in 1..hh |-> Some(Unwrap(StarOfRow(st, ww, k - 1)))]

(* Extract whose rotated result starts from Some(0) in place of None. *)
ExtractSomeFill(st, hh, ww, rot) ==
    IF rot
    THEN [k \in 1..ww |->
            LET rows == {i \in 0..(hh - 1) : Unwrap(StarOfRow(st, ww, i)) = k - 1}
            IN  IF rows = {} THEN Some(0) ELSE Some(hh - SetMax(rows) - 1)]
    ELSE [k \in 1..hh |-> Some(Unwrap(StarOfRow(st, ww, k - 1)))]

(* The returned vector, given that every row holds a star. *)
Extract(st, hh, ww, rot) ==
    IF rot
    THEN [k \in 1..ww |->
            LET rows == {i \in 0..(hh - 1) : Unwrap(StarOfRow(st, ww, i)) = k - 1}
            IN  IF rows = {} THEN None ELSE Some(hh - SetMax(rows) - 1)]
    ELSE [k \in 1..hh |-> Some(Unwrap(StarOfRow(st, ww, k - 1)))]

----------------------------------------------------------------------------
(* Step 4: find the first uncovered zero in row-major order. *)

RECURSIVE ZeroScan(_, _, _, _, _, _, _)
ZeroScan(mm, hh, ww, rc, cc, i, j) ==
    IF i >= hh THEN None
    ELSE IF i \in rc \/ j >= ww THEN ZeroScan(mm, hh, ww, rc, cc, i + 1, 0)
    ELSE IF j \in cc THEN ZeroScan(mm, hh, ww, rc, cc, i, j + 1)
    ELSE IF mm[i][j] = 0 THEN Some(<<i, j>>)
    ELSE ZeroScan(mm, hh, ww, rc, cc, i, j + 1)

(* FindUncoveredZero that scans column by column. *)
FindUncoveredZeroColumnMajor(mm, hh, ww, rc, cc) ==
    LET zeros == {p \in ((0..(hh - 1)) \ rc) \X ((0..(ww - 1)) \ cc) :
                     mm[p[1]][p[2]] = 0}
    IN  IF zeros = {} THEN None
        ELSE Some(CHOOSE p \in zeros :
                     \A q \in zeros :
                         p[2] < q[2] \/ (p[2] = q[2] /\ p[1] <= q[1]))

(* FindUncoveredZero that takes the last uncovered zero in row-major order. *)
FindUncoveredZeroLast(mm, hh, ww, rc, cc) ==
    LET zeros == {p \in ((0..(hh - 1)) \ rc) \X ((0..(ww - 1)) \ cc) :
                     mm[p[1]][p[2]] = 0}
    IN  IF zeros = {} THEN None
        ELSE Some(CHOOSE p \in zeros :
                     \A q \in zeros :
                         q[1] < p[1] \/ (q[1] = p[1] /\ q[2] <= p[2]))

FindUncoveredZero(mm, hh, ww, rc, cc) == ZeroScan(mm, hh, ww, rc, cc, 0, 0)

----------------------------------------------------------------------------
(* Step 6: shift the matrix by the minimum uncovered value. *)

(* MinUncovered that skips covered rows only. *)
MinUncoveredAnyColumn(mm, hh, ww, rc, cc) ==
    SetMin({MaxValue} \cup
           {mm[i][j] : i \in (0..(hh - 1)) \ rc, j \in 0..(ww - 1)})

(* MinUncovered whose running minimum starts at zero instead of max_value. *)
MinUncoveredFromZero(mm, hh, ww, rc, cc) ==
    SetMin({0} \cup
           {mm[i][j] : i \in (0..(hh - 1)) \ rc, j \in (0..(ww - 1)) \ cc})

(* MinUncovered that takes the largest uncovered value. *)
MaxUncovered(mm, hh, ww, rc, cc) ==
    SetMax({0} \cup
           {mm[i][j] : i \in (0..(hh - 1)) \ rc, j \in (0..(ww - 1)) \ cc})

MinUncovered(mm, hh, ww, rc, cc) ==
    SetMin({MaxValue} \cup
           {mm[i][j] : i \in (0..(hh - 1)) \ rc, j \in (0..(ww - 1)) \ cc})

(* `*c += min` on a covered row exceeds N::max_value(). *)
AddOverflows(mm, hh, ww, rc, min) ==
    \E i \in rc, j \in 0..(ww - 1) : mm[i][j] + min > MaxValue

(* The value of type N that wrapping arithmetic gives for the integer v. *)
Wrap(v) == ((v + MaxValue + 1) % (2 * (MaxValue + 1))) - MaxValue - 1

(* Adjust of a build without overflow checks: `+=` and `-=` wrap. *)
AdjustWrapping(mm, hh, ww, rc, cc, min) ==
    [i \in 0..(hh - 1) |-> [j \in 0..(ww - 1) |->
        LET added == IF i \in rc THEN Wrap(mm[i][j] + min) ELSE mm[i][j]
        IN  IF j \notin cc THEN Wrap(added - min) ELSE added]]

(* Adjust without the subtraction from the uncovered columns. *)
AdjustAddOnly(mm, hh, ww, rc, cc, min) ==
    [i \in 0..(hh - 1) |-> [j \in 0..(ww - 1) |->
        mm[i][j] + (IF i \in rc THEN min ELSE 0)]]

(* Adjust that subtracts from the covered columns. *)
AdjustCoveredColumns(mm, hh, ww, rc, cc, min) ==
    [i \in 0..(hh - 1) |-> [j \in 0..(ww - 1) |->
        mm[i][j] + (IF i \in rc THEN min ELSE 0) - (IF j \in cc THEN min ELSE 0)]]

(* Adjust without the addition to the covered rows. *)
AdjustNoAdd(mm, hh, ww, rc, cc, min) ==
    [i \in 0..(hh - 1) |-> [j \in 0..(ww - 1) |->
        mm[i][j] - (IF j \notin cc THEN min ELSE 0)]]

(* Adjust that subtracts from every column. *)
AdjustAllColumns(mm, hh, ww, rc, cc, min) ==
    [i \in 0..(hh - 1) |-> [j \in 0..(ww - 1) |->
        mm[i][j] + (IF i \in rc THEN min ELSE 0) - min]]

Adjust(mm, hh, ww, rc, cc, min) ==
    [i \in 0..(hh - 1) |-> [j \in 0..(ww - 1) |->
        mm[i][j] + (IF i \in rc THEN min ELSE 0) - (IF j \notin cc THEN min ELSE 0)]]

----------------------------------------------------------------------------
(* Step 5: the alternating path and its flip. *)

(* The path after one more round of the loop: the starred zero in the column
   of the last element and the primed zero in that star's row are appended.
   <<"break", path>> if the column holds no star, <<"panic">> if the row holds
   no prime (the unwrap of the `Guaranteed to exist` lookup fails). *)
ExtendPath(st, pr, hh, ww, path) ==
    LET j == path[Len(path)][2]
        next_star == Find({i \in 0..(hh - 1) : st[i][j]})
    IN  IF ~IsSome(next_star) THEN <<"break", path>>
        ELSE LET i == Unwrap(next_star)
                 next_prime == Find({jj \in 0..(ww - 1) : pr[i][jj]})
             IN  IF ~IsSome(next_prime) THEN <<"panic">>
                 ELSE <<"loop", path \o <<(<<i, j>>), (<<i, Unwrap(next_prime)>>)>>>>

(* The path the inner loop ends with, grown from `path`; None on a panic.
   (The argument is bound by the set constructor, so that it is evaluated
   once per round.) *)
RECURSIVE BuildPath(_, _, _, _, _)
BuildPath(st, pr, hh, ww, path) ==
    CHOOSE out \in {IF r[1] = "break" THEN Some(r[2])
                    ELSE IF r[1] = "panic" THEN None
                    ELSE BuildPath(st, pr, hh, ww, r[2]) :
                        r \in {ExtendPath(st, pr, hh, ww, path)}} : TRUE

(* set!(stars, i, j, primes[i, j]) for the cells of the path from k on. *)
RECURSIVE FlipFrom(_, _, _, _)
FlipFrom(st, pr, path, k) ==
    IF k > Len(path) THEN st
    ELSE CHOOSE out \in {FlipFrom(s1, pr, path, k + 1) :
                            s1 \in {[st EXCEPT ![path[k][1]][path[k][2]] =
                                                   pr[path[k][1]][path[k][2]]]}} : TRUE

(* Flip that leaves out the first cell of the path. *)
FlipSkipFirst(st, pr, path) == FlipFrom(st, pr, path, 2)

(* Flip that stars every cell of the path. *)
FlipStarAll(st, pr, path) ==
    [i \in DOMAIN st |-> [j \in DOMAIN st[i] |->
        st[i][j] \/ \E k \in 1..Len(path) : path[k] = <<i, j>>]]

Flip(st, pr, path) == FlipFrom(st, pr, path, 1)


----------------------------------------------------------------------------
(* The locals of one call as a record, and the steps as functions on it. *)

Entry(mat, ht, wd) ==
    [matrix |-> mat, height |-> ht, width |-> wd, pc |-> "start",
     rotated |-> FALSE, h |-> 0, w |-> 0, m |-> <<>>, stars |-> <<>>,
     primes |-> <<>>, row_cover |-> {}, col_cover |-> {}, verify |-> FALSE,
     uncovered |-> None, result |-> <<>>, augments |-> 0, previous |-> None,
     overflow_checks |-> TRUE]

(* `if height == 0 || width == 0 { return Vec::new() }` *)
ReturnEmptyOf(s) == [s EXCEPT !.pc = "done", !.result = <<>>]

(* Step0Of with covers that are not created anew: they keep the bits they
   hold on entry. *)
Step0OfCoversKept(s) ==
    IF IndexPanics(s.matrix, s.height, s.width)
    THEN [s EXCEPT !.pc = "panic"]
    ELSE LET hh == WorkingH(s.height, s.width)
             ww == WorkingW(s.height, s.width)
         IN  [s EXCEPT !.pc = "step1",
                       !.rotated = Rotated(s.height, s.width),
                       !.h = hh,
                       !.w = ww,
                       !.m = CopyMatrix(s.matrix, s.height, s.width),
                       !.stars = NoMarks(hh, ww),
                       !.primes = NoMarks(hh, ww)]

Step0Of(s) ==
    IF IndexPanics(s.matrix, s.height, s.width)
    THEN [s EXCEPT !.pc = "panic"]
    ELSE LET hh == WorkingH(s.height, s.width)
             ww == WorkingW(s.height, s.width)
         IN  [s EXCEPT !.pc = "step1",
                       !.rotated = Rotated(s.height, s.width),
                       !.h = hh,
                       !.w = ww,
                       !.m = CopyMatrix(s.matrix, s.height, s.width),
                       !.stars = NoMarks(hh, ww),
                       !.primes = NoMarks(hh, ww),
                       !.row_cover = {},
                       !.col_cover = {}]

Step1Of(s) == [s EXCEPT !.pc = "step2", !.m = ReduceRows(s.m)]

(* Step2Of without `col_cover.clear()`. *)
Step2OfCoverKept(s) ==
    [s EXCEPT !.pc = "step3",
              !.stars = GreedyStars(s.m, s.h, s.w, s.stars, s.col_cover),
              !.col_cover = s.col_cover \cup
                            StarredColumns(GreedyStars(s.m, s.h, s.w, s.stars, s.col_cover),
                                           s.h, s.w),
              !.verify = TRUE]

Step2Of(s) ==
    [s EXCEPT !.pc = "step3",
              !.stars = GreedyStars(s.m, s.h, s.w, s.stars, s.col_cover),
              !.col_cover = {},
              !.verify = TRUE]

(* Where the next iteration of `loop` starts. *)
LoopHead(v) == IF v THEN "step3" ELSE "step4"

(* Step3Of that compares the number of covered columns with w. *)
Step3OfCountW(s) ==
    LET cc == s.col_cover \cup StarredColumns(s.stars, s.h, s.w)
    IN  IF Cardinality(cc) = s.w
        THEN IF \E i \in 0..(s.h - 1) : ~IsSome(StarOfRow(s.stars, s.w, i))
             THEN [s EXCEPT !.pc = "panic", !.col_cover = cc]
             ELSE [s EXCEPT !.pc = "done", !.col_cover = cc,
                            !.result = Extract(s.stars, s.h, s.w, s.rotated)]
        ELSE [s EXCEPT !.pc = "step4", !.col_cover = cc]

(* Step3Of that counts the starred columns but leaves col_cover as it was. *)
Step3OfNoCover(s) ==
    LET cc == s.col_cover \cup StarredColumns(s.stars, s.h, s.w)
    IN  IF Cardinality(cc) = s.h
        THEN IF \E i \in 0..(s.h - 1) : ~IsSome(StarOfRow(s.stars, s.w, i))
             THEN [s EXCEPT !.pc = "panic"]
             ELSE [s EXCEPT !.pc = "done",
                            !.result = Extract(s.stars, s.h, s.w, s.rotated)]
        ELSE [s EXCEPT !.pc = "step4"]

Step3Of(s) ==
    LET cc == s.col_cover \cup StarredColumns(s.stars, s.h, s.w)
    IN  IF Cardinality(cc) = s.h
        THEN IF \E i \in 0..(s.h - 1) : ~IsSome(StarOfRow(s.stars, s.w, i))
             THEN [s EXCEPT !.pc = "panic", !.col_cover = cc]
             ELSE [s EXCEPT !.pc = "done", !.col_cover = cc,
                            !.result = Extract(s.stars, s.h, s.w, s.rotated)]
        ELSE [s EXCEPT !.pc = "step4", !.col_cover = cc]

(* Step4Of that records the zero it finds but does not prime it. *)
Step4OfNoPrime(s) ==
    [s EXCEPT !.pc = "branch",
              !.uncovered = FindUncoveredZero(s.m, s.h, s.w, s.row_cover, s.col_cover)]

(* Step4Of that primes the zero it finds but does not record it. *)
Step4OfForgets(s) ==
    LET u == FindUncoveredZero(s.m, s.h, s.w, s.row_cover, s.col_cover)
    IN  IF IsSome(u)
        THEN [s EXCEPT !.pc = "branch", !.uncovered = None,
                       !.primes[Unwrap(u)[1]][Unwrap(u)[2]] = TRUE]
        ELSE [s EXCEPT !.pc = "branch", !.uncovered = None]

Step4Of(s) ==
    LET u == FindUncoveredZero(s.m, s.h, s.w, s.row_cover, s.col_cover)
    IN  IF IsSome(u)
        THEN [s EXCEPT !.pc = "branch", !.uncovered = u,
                       !.primes[Unwrap(u)[1]][Unwrap(u)[2]] = TRUE]
        ELSE [s EXCEPT !.pc = "branch", !.uncovered = None]

Step6Of(s) ==
    LET min == MinUncovered(s.m, s.h, s.w, s.row_cover, s.col_cover)
    IN  IF ~s.overflow_checks
        THEN [s EXCEPT !.pc = LoopHead(FALSE),
                       !.m = AdjustWrapping(s.m, s.h, s.w, s.row_cover, s.col_cover, min),
                       !.verify = FALSE]
        ELSE IF AddOverflows(s.m, s.h, s.w, s.row_cover, min)
        THEN [s EXCEPT !.pc = "panic"]
        ELSE [s EXCEPT !.pc = LoopHead(FALSE),
                       !.m = Adjust(s.m, s.h, s.w, s.row_cover, s.col_cover, min),
                       !.verify = FALSE]

(* The starred zero in the row of the uncovered zero, if any. *)
StarInRow(s) == StarOfRow(s.stars, s.w, Unwrap(s.uncovered)[1])

(* CoverRowOf that leaves the column of the starred zero covered. *)
CoverRowOfKeepColumn(s) ==
    [s EXCEPT !.pc = LoopHead(FALSE),
              !.row_cover = s.row_cover \cup {Unwrap(s.uncovered)[1]},
              !.verify = FALSE,
              !.uncovered = None]

(* CoverRowOf that uncovers the column of the star but does not cover the row. *)
CoverRowOfColumnOnly(s) ==
    [s EXCEPT !.pc = LoopHead(FALSE),
              !.col_cover = s.col_cover \ {Unwrap(StarInRow(s))},
              !.verify = FALSE,
              !.uncovered = None]

CoverRowOf(s) ==
    [s EXCEPT !.pc = LoopHead(FALSE),
              !.row_cover = s.row_cover \cup {Unwrap(s.uncovered)[1]},
              !.col_cover = s.col_cover \ {Unwrap(StarInRow(s))},
              !.verify = FALSE,
              !.uncovered = None]

Step5With(s, path) ==
    IF ~IsSome(path)
    THEN [s EXCEPT !.pc = "panic"]
    ELSE [s EXCEPT !.pc = LoopHead(TRUE),
                   !.stars = Flip(s.stars, s.primes, Unwrap(path)),
                   !.row_cover = {},
                   !.col_cover = {},
                   !.primes = NoMarks(s.h, s.w),
                   !.verify = TRUE,
                   !.uncovered = None,
                   !.augments = s.augments + 1]

Step5Of(s) ==
    CHOOSE out \in {Step5With(s, path) :
                       path \in {BuildPath(s.stars, s.primes, s.h, s.w,
                                           <<Unwrap(s.uncovered)>>)}} : TRUE

(* AtStep0 with `&&` for `||` in the zero-size test. *)
AtStep0Unless00(s) == s.pc = "start" /\ ~(s.height = 0 /\ s.width = 0)

(* Which step runs in state s. *)
AtReturnEmpty(s) == s.pc = "start" /\ (s.height = 0 \/ s.width = 0)
AtStep0(s) == s.pc = "start" /\ ~(s.height = 0 \/ s.width = 0)
AtStep6(s) == s.pc = "branch" /\ ~IsSome(s.uncovered)
AtCoverRow(s) == s.pc = "branch" /\ IsSome(s.uncovered) /\ IsSome(StarInRow(s))
AtStep5(s) == s.pc = "branch" /\ IsSome(s.uncovered) /\ ~IsSome(StarInRow(s))

Returned(s) == s.pc \in {"done", "panic"}

(* The same call is made once more.  The locals of the call that returned are
   dead: their last values stay where they are, and the call has to
   initialise whatever it reads. *)
CallAgainOf(s) ==
    [s EXCEPT !.pc = "start",
              !.result = <<>>,
              !.augments = 0,
              !.previous = Some(<<s.pc, s.result>>)]

AtCallAgain(s) == Returned(s) /\ ~IsSome(s.previous)

StepOf(s) ==
    CASE AtReturnEmpty(s) -> ReturnEmptyOf(s)
      [] AtStep0(s) -> Step0Of(s)
      [] s.pc = "step1" -> Step1Of(s)
      [] s.pc = "step2" -> Step2Of(s)
      [] s.pc = "step3" -> Step3Of(s)
      [] s.pc = "step4" -> Step4Of(s)
      [] AtStep6(s) -> Step6Of(s)
      [] AtCoverRow(s) -> CoverRowOf(s)
      [] AtStep5(s) -> Step5Of(s)

(* A whole call: the state in which minimize(mat, ht, wd) returns or panics. *)
RECURSIVE RunFrom(_)
RunFrom(s) == IF Returned(s) THEN s ELSE RunFrom(StepOf(s))

Minimize(mat, ht, wd) == RunFrom(Entry(mat, ht, wd))

----------------------------------------------------------------------------
(* The state machine of one call. *)

Cur ==
    [matrix |-> matrix, height |-> height, width |-> width, pc |-> pc,
     rotated |-> rotated, h |-> h, w |-> w, m |-> m, stars |-> stars,
     primes |-> primes, row_cover |-> row_cover, col_cover |-> col_cover,
     verify |-> verify, uncovered |-> uncovered, result |-> result,
     augments |-> augments, previous |-> previous,
     overflow_checks |-> overflow_checks]

Becomes(next) ==
    \E s \in {next} :
    /\ matrix' = s.matrix
    /\ height' = s.height
    /\ width' = s.width
    /\ pc' = s.pc
    /\ rotated' = s.rotated
    /\ h' = s.h
    /\ w' = s.w
    /\ m' = s.m
    /\ stars' = s.stars
    /\ primes' = s.primes
    /\ row_cover' = s.row_cover
    /\ col_cover' = s.col_cover
    /\ verify' = s.verify
    /\ uncovered' = s.uncovered
    /\ result' = s.result
    /\ augments' = s.augments
    /\ previous' = s.previous
    /\ overflow_checks' = s.overflow_checks

(* Sequences of n naturals whose sum is at most t. *)
RECURSIVE Costs(_, _)
Costs(n, t) ==
    IF n = 0 THEN {<<>>}
    ELSE UNION {{<<v>> \o s : s \in Costs(n - 1, t - v)} : v \in 0..t}

Called(mat, ht, wd, checks) ==
    /\ matrix = mat
    /\ height = ht
    /\ width = wd
    /\ pc = "start"
    /\ rotated = FALSE
    /\ h = 0
    /\ w = 0
    /\ m = <<>>
    /\ stars = <<>>
    /\ primes = <<>>
    /\ row_cover = {}
    /\ col_cover = {}
    /\ verify = FALSE
    /\ uncovered = None
    /\ result = <<>>
    /\ augments = 0
    /\ previous = None
    /\ overflow_checks = checks

(* A call within the contract: height * width costs, none negative. *)
Init ==
    \E ht \in 0..MaxHeight, wd \in 0..MaxWidth :
        \E mat \in Costs(ht * wd, MaxTotal) : Called(mat, ht, wd, TRUE)

ReturnEmpty == AtReturnEmpty(Cur) /\ Becomes(ReturnEmptyOf(Cur))

Step0 == AtStep0(Cur) /\ Becomes(Step0Of(Cur))

Step1 == pc = "step1" /\ Becomes(Step1Of(Cur))

Step2 == pc = "step2" /\ Becomes(Step2Of(Cur))

Step3 == pc = "step3" /\ Becomes(Step3Of(Cur))

Step4 == pc = "step4" /\ Becomes(Step4Of(Cur))

Step6 == AtStep6(Cur) /\ Becomes(Step6Of(Cur))

CoverRow == AtCoverRow(Cur) /\ Becomes(CoverRowOf(Cur))

Step5 == AtStep5(Cur) /\ Becomes(Step5Of(Cur))

Next ==
    \/ ReturnEmpty
    \/ Step0
    \/ Step1
    \/ Step2
    \/ Step3
    \/ Step4
    \/ Step6
    \/ CoverRow
    \/ Step5

Spec == Init /\ [][Next]_vars

(* A call within the contract whose costs sum to less than MaxTotal (the
   calls explored for the liveness property). *)
InitFair ==
    \E ht \in 0..MaxHeight, wd \in 0..MaxWidth :
        \E mat \in Costs(ht * wd, MaxTotal - 1) : Called(mat, ht, wd, TRUE)

(* The call runs on one thread with no suspension point: a step that is
   enabled is taken. *)
FairSpec == InitFair /\ [][Next]_vars /\ WF_vars(Next)


----------------------------------------------------------------------------
(* Calls with costs at the ends of the range of the cost type, in a build that
   panics on overflow and in a build that wraps. *)

MaxLargeCells == 9

InitLarge ==
    \E ht \in 0..MaxHeight, wd \in 0..MaxWidth, checks \in BOOLEAN :
        /\ ht * wd <= MaxLargeCells
        /\ \E mat \in [1..(ht * wd) -> {0, MaxValue}] :
              Called(mat, ht, wd, checks)

SpecLarge == InitLarge /\ [][Next]_vars

----------------------------------------------------------------------------
(* Two calls on the same arguments, one after the other. *)

CallAgain == AtCallAgain(Cur) /\ Becomes(CallAgainOf(Cur))

NextTwice ==
    \/ Next
    \/ CallAgain

SpecTwice == InitFair /\ [][NextTwice]_vars

----------------------------------------------------------------------------
(* Calls outside the contract. *)

Abs(v) == IF v < 0 THEN -v ELSE v

(* Sequences of n integers whose absolute values sum to at most t. *)
RECURSIVE SignedCosts(_, _)
SignedCosts(n, t) ==
    IF n = 0 THEN {<<>>}
    ELSE UNION {{<<v>> \o s : s \in SignedCosts(n - 1, t - Abs(v))} : v \in (-t)..t}

(* A call with a signed cost type: height * width costs of either sign. *)
InitSigned ==
    \E ht \in 0..MaxHeight, wd \in 0..MaxWidth :
        /\ ht * wd <= MaxCells
        /\ \E mat \in SignedCosts(ht * wd, MaxTotal) : Called(mat, ht, wd, TRUE)

SpecSigned == InitSigned /\ [][Next]_vars

(* A call whose slice is up to MaxSlack costs shorter or longer than
   height * width. *)
InitLen ==
    \E ht \in 0..MaxHeight, wd \in 0..MaxWidth :
        /\ ht * wd <= MaxCells
        /\ \E n \in 0..(ht * wd + MaxSlack) :
              /\ n >= ht * wd - MaxSlack
              /\ \E mat \in Costs(n, MaxTotal) : Called(mat, ht, wd, TRUE)

SpecLen == InitLen /\ [][Next]_vars

----------------------------------------------------------------------------
(* Vocabulary of the properties. *)

MinDim == IF height < width THEN height ELSE width

NonZeroSize == height >= 1 /\ width >= 1

(* matrix[width * i + j] *)
CostAt(mat, wd, i, j) == mat[wd * i + j + 1]

(* The (row, column) pairs of a returned vector. *)
Pairs(res) == {<<k - 1, Unwrap(res[k])>> : k \in {n \in 1..Len(res) : IsSome(res[n])}}

RECURSIVE PairsCost(_, _, _)
PairsCost(mat, wd, f) ==
    IF f = {} THEN 0
    ELSE LET p == CHOOSE q \in f : TRUE
         IN  CostAt(mat, wd, p[1], p[2]) + PairsCost(mat, wd, f \ {p})

(* Total cost of a returned vector. *)
TotalCost(mat, wd, res) == PairsCost(mat, wd, Pairs(res))

(* All ways to give each of 0..k-1 its own element of avail. *)
RECURSIVE Injections(_, _)
Injections(k, avail) ==
    IF k = 0 THEN {{}}
    ELSE UNION {{f \cup {<<k - 1, x>>} : f \in Injections(k - 1, avail \ {x})} : x \in avail}

(* Every assignment that matches min(ht, wd) rows to pairwise distinct columns. *)
Assignments(ht, wd) ==
    IF ht <= wd THEN Injections(ht, 0..(wd - 1))
    ELSE {{<<p[2], p[1]>> : p \in f} : f \in Injections(wd, 0..(ht - 1))}

MinAssignCost(mat, ht, wd) ==
    SetMin({PairsCost(mat, wd, f) : f \in Assignments(ht, wd)})

OptimalAssignments(mat, ht, wd) ==
    LET best == MinAssignCost(mat, ht, wd)
    IN  {f \in Assignments(ht, wd) : PairsCost(mat, wd, f) = best}

(* The wd x ht matrix whose entry (j, i) is entry (i, j) of mat. *)
TransposeOf(mat, ht, wd) ==
    [k \in 1..(ht * wd) |-> CostAt(mat, wd, (k - 1) % ht, (k - 1) \div ht)]

(* The matrix with every negative entry replaced by 0. *)
Clamped(mat) == [k \in 1..Len(mat) |-> IF mat[k] < 0 THEN 0 ELSE mat[k]]

HasNegative(mat) == \E k \in 1..Len(mat) : mat[k] < 0

IsOption(o, n) == o = None \/ (Len(o) = 1 /\ Unwrap(o) \in 0..(n - 1))

----------------------------------------------------------------------------
(* C1 - Optimality: when minimize returns for a matrix of non-negative costs
   with height >= 1 and width >= 1, the total cost of the returned assignment
   equals the minimum, over all assignments of min(height, width) rows to
   pairwise distinct columns, of the total cost. *)
C1_Optimality ==
    (pc = "done" /\ NonZeroSize) =>
        TotalCost(matrix, width, result) = MinAssignCost(matrix, height, width)

(* A call has returned after a dual adjustment and an augmentation on a matrix
   with three working rows. *)
C1_Witness ==
    /\ pc = "done"
    /\ h = 3
    /\ augments >= 1
    /\ m # ReduceRows(CopyMatrix(matrix, height, width))

(* C2 - Validity: the returned vector is a partial injective function from
   rows to columns: no column is assigned to two rows and every assigned
   column is in 0..width-1. *)
C2_Validity ==
    pc = "done" =>
        /\ \A k \in 1..Len(result) : IsOption(result[k], width)
        /\ \A k1, k2 \in 1..Len(result) :
              (k1 # k2 /\ IsSome(result[k1]) /\ IsSome(result[k2]))
                  => Unwrap(result[k1]) # Unwrap(result[k2])

(* A rotated call (more rows than columns) has returned with two rows assigned. *)
C2_Witness ==
    /\ pc = "done"
    /\ rotated
    /\ Cardinality(Pairs(result)) >= 2

(* C3 as stated - Result shape: for every input within the contract, minimize
   returns a vector of length exactly height. *)
C3_Original ==
    /\ pc # "panic"
    /\ pc = "done" => Len(result) = height

(* C3 as amended - Result shape: for every input within the contract the call
   does not panic; when height >= 1 and width >= 1 the returned vector has
   length exactly height and each element is None or Some of a column; when
   height or width is 0 the returned vector is empty. *)
C3_ResultShape ==
    /\ pc # "panic"
    /\ (pc = "done" /\ NonZeroSize) =>
          /\ Len(result) = height
          /\ \A k \in 1..height : IsOption(result[k], width)
    /\ (pc = "done" /\ ~NonZeroSize) => result = <<>>

(* A call with more rows than columns has returned some None. *)
C3_Witness ==
    /\ pc = "done"
    /\ NonZeroSize
    /\ height > width
    /\ \E k \in 1..Len(result) : result[k] = None

(* C4 - Matching size: for height >= 1 and width >= 1 the returned vector
   holds exactly min(height, width) assigned rows and exactly
   height - min(height, width) None; so none when width >= height. *)
C4_MatchingSize ==
    (pc = "done" /\ NonZeroSize) =>
        /\ Cardinality({k \in 1..Len(result) : IsSome(result[k])}) = MinDim
        /\ Cardinality({k \in 1..Len(result) : result[k] = None}) = height - MinDim
        /\ width >= height => \A k \in 1..Len(result) : IsSome(result[k])

(* A 3 x 2 call has returned: one row is left unassigned. *)
C4_Witness ==
    /\ pc = "done"
    /\ height = 3
    /\ width = 2
    /\ Cardinality({k \in 1..Len(result) : result[k] = None}) = 1

(* C5 - Zero-sized input: if height or width is 0 the call returns the empty
   vector, does not panic, and never enters the algorithm: no working matrix,
   star, prime or cover is created or changed. *)
C5_ZeroSize ==
    (height = 0 \/ width = 0) =>
        /\ pc \in {"start", "done"}
        /\ pc = "done" => result = <<>>
        /\ m = <<>> /\ stars = <<>> /\ primes = <<>>
        /\ row_cover = {} /\ col_cover = {}
        /\ h = 0 /\ w = 0 /\ augments = 0

(* A call with three rows and no column has returned. *)
C5_Witness == pc = "done" /\ height = 3 /\ width = 0

(* C6 - Dimension mismatch: whenever the slice is shorter or longer than
   height * width (height >= 1, width >= 1) the call ends in a panic and
   returns no assignment. *)
C6_MismatchPanics ==
    (NonZeroSize /\ Len(matrix) # height * width) => pc # "done"

(* C7 - Negative costs are rejected: if any entry of the matrix is negative
   the call ends in an error before the algorithm runs and returns no
   assignment; the entry is not replaced by zero. *)
C7_NegativeRejected == HasNegative(matrix) => pc \in {"start", "panic"}

(* C8 - Clamping of negatives: for a signed cost type, the result on a matrix
   with negative entries is exactly the result on the matrix with every
   negative entry replaced by 0, in both orientations. *)
C8_ClampEquivalence ==
    (pc = "done" /\ HasNegative(matrix)) =>
        LET other == Minimize(Clamped(matrix), height, width)
        IN  other.pc = "done" /\ other.result = result

(* A rotated call on a matrix with a negative entry has returned after an
   augmentation. *)
C8_Witness ==
    /\ pc = "done"
    /\ HasNegative(matrix)
    /\ rotated
    /\ augments >= 1

(* C9 - Termination: for every input within the contract the call eventually
   returns, and Step 5 (Augment) runs at most min(height, width) times. *)
C9_Termination == <>(pc = "done") /\ [](augments <= MinDim)

(* A call on three working rows has returned after an augmentation. *)
C9_Witness == pc = "done" /\ MinDim = 3 /\ augments >= 1

(* C10 as stated - Orientation symmetry: the result A on a matrix and the
   result B on its transpose are transposes of each other (A[i] = Some(j) if
   and only if B[j] = Some(i)) and have equal total cost. *)
C10_Original ==
    (pc = "done" /\ NonZeroSize) =>
        LET mt == TransposeOf(matrix, height, width)
            other == Minimize(mt, width, height)
        IN  /\ other.pc = "done"
            /\ Pairs(other.result) = {<<p[2], p[1]>> : p \in Pairs(result)}
            /\ TotalCost(mt, height, other.result) = TotalCost(matrix, width, result)

(* C10 as amended - Orientation symmetry: the result A on a matrix and the
   result B on its transpose have equal total cost; they are transposes of
   each other when only one assignment has the minimum total cost. *)
C10_OrientationSymmetry ==
    (pc = "done" /\ NonZeroSize) =>
        LET mt == TransposeOf(matrix, height, width)
            other == Minimize(mt, width, height)
        IN  /\ other.pc = "done"
            /\ TotalCost(mt, height, other.result) = TotalCost(matrix, width, result)
            /\ \/ Pairs(other.result) = {<<p[2], p[1]>> : p \in Pairs(result)}
               \/ Cardinality(OptimalAssignments(matrix, height, width)) # 1

(* A 2 x 3 call has returned after an augmentation; its transpose is solved
   with the rotation. *)
C10_Witness ==
    /\ pc = "done"
    /\ height = 2
    /\ width = 3
    /\ augments >= 1
    /\ Cardinality(OptimalAssignments(matrix, height, width)) = 1

----------------------------------------------------------------------------
(* Matrices derived from the matrix of the call. *)

Min2(a, b) == IF a < b THEN a ELSE b

(* mat with c subtracted from every entry of row r. *)
RowReduced(mat, wd, r, c) ==
    [k \in 1..Len(mat) |-> IF (k - 1) \div wd = r THEN mat[k] - c ELSE mat[k]]

(* mat with c subtracted from every entry of column j. *)
ColReduced(mat, wd, j, c) ==
    [k \in 1..Len(mat) |-> IF (k - 1) % wd = j THEN mat[k] - c ELSE mat[k]]

(* The matrices obtained by subtracting a constant >= 1 from one row, all
   entries staying >= 0. *)
RowReductions(mat, ht, wd) ==
    {RowReduced(mat, wd, p[1], p[2]) :
        p \in {q \in (0..(ht - 1)) \X (1..MaxTotal) :
                  \A j \in 0..(wd - 1) : CostAt(mat, wd, q[1], j) >= q[2]}}

(* The same for one column. *)
ColReductions(mat, ht, wd) ==
    {ColReduced(mat, wd, p[1], p[2]) :
        p \in {q \in (0..(wd - 1)) \X (1..MaxTotal) :
                  \A i \in 0..(ht - 1) : CostAt(mat, wd, i, q[1]) >= q[2]}}

(* C11 as stated - Row/column reduction invariance: for every matrix C' got
   from the matrix C of the call by subtracting one constant from every entry
   of a single row or of a single column (entries staying >= 0), minimize(C')
   returns the same assignment as minimize(C). *)
C11_Original ==
    (pc = "done" /\ NonZeroSize) =>
        \A other \in RowReductions(matrix, height, width)
                     \cup ColReductions(matrix, height, width) :
            Minimize(other, height, width).result = result


(* The reductions along a row of the working matrix: input rows, or input
   columns when the call rotates. *)
WorkingRowReductions(mat, ht, wd) ==
    IF ht <= wd THEN RowReductions(mat, ht, wd) ELSE ColReductions(mat, ht, wd)

(* C11 as amended - Reduction invariance: subtracting a constant from a single
   row (height <= width) or a single column (height > width) leaves the
   returned assignment unchanged; for a square matrix, subtracting a constant
   from a single column leaves the total cost of the returned assignment (on
   the matrix of the call) unchanged, and the assignment itself when only one
   assignment has the minimum total cost. *)
C11_ReductionInvariance ==
    (pc = "done" /\ NonZeroSize) =>
        /\ \A other \in WorkingRowReductions(matrix, height, width) :
              Minimize(other, height, width).result = result
        /\ height = width =>
              \A other \in ColReductions(matrix, height, width) :
                  LET res == Minimize(other, height, width).result
                  IN  /\ TotalCost(matrix, width, res) = TotalCost(matrix, width, result)
                      /\ \/ res = result
                         \/ Cardinality(OptimalAssignments(matrix, height, width)) # 1

(* A 2 x 2 call with a single optimal assignment has returned after an
   augmentation, and a constant can be subtracted from one of its columns. *)
C11_Witness ==
    /\ pc = "done"
    /\ height = 2
    /\ width = 2
    /\ augments >= 1
    /\ ColReductions(matrix, height, width) # {}
    /\ Cardinality(OptimalAssignments(matrix, height, width)) = 1

----------------------------------------------------------------------------
(* The calls of the test scenarios. *)

MaxN == 6

(* test_stress: the n x n matrix with entry(row, col) = row * n + col. *)
Progression(n) == [k \in 1..(n * n) |-> k - 1]

(* test_sales_3x3 *)
Sales3x3 == <<250, 400, 350,
              400, 600, 350,
              200, 400, 250>>

(* test_wikipedia_4x4 *)
Wikipedia4x4 == <<0, 1, 2, 3,
                  4, 5, 6, 0,
                  0, 2, 4, 5,
                  3, 0, 0, 9>>

(* A call of test_basic_0x0 or test_stress (n x n, n up to MaxN), of
   test_sales_3x3 or of test_wikipedia_4x4. *)
InitScenario ==
    \/ \E n \in 0..MaxN : Called(Progression(n), n, n, TRUE)
    \/ Called(Sales3x3, 3, 3, TRUE)
    \/ Called(Wikipedia4x4, 4, 4, TRUE)

SpecScenario == InitScenario /\ [][Next]_vars

(* The vector [Some(a1), Some(a2), ...] of an assignment that leaves no row
   unassigned. *)
AllSome(cols) == [k \in 1..Len(cols) |-> Some(cols[k])]

(* C12 - Arithmetic-progression matrices: for every n >= 1 the call on the
   n x n matrix with entry(row, col) = row * n + col does not panic and
   returns the reverse permutation, result[i] = Some(n - 1 - i) for every
   row i. *)
C12_Progression ==
    (height >= 1 /\ width = height /\ matrix = Progression(height)) =>
        /\ pc # "panic"
        /\ pc = "done" =>
              /\ Len(result) = height
              /\ \A i \in 0..(height - 1) : result[i + 1] = Some(height - 1 - i)

(* The call on the largest progression matrix has returned after as many
   augmentations as it has rows less one. *)
C12_Witness ==
    /\ pc = "done"
    /\ height = MaxN
    /\ matrix = Progression(MaxN)
    /\ augments = MaxN - 1

(* C13 as stated - Scenario 3x3: the call on
   [[250,400,350],[400,600,350],[200,400,250]] returns the assignment
   [1,2,0], whose total cost is 600. *)
C13_Original ==
    (pc = "done" /\ matrix = Sales3x3) =>
        /\ result = AllSome(<<1, 2, 0>>)
        /\ TotalCost(matrix, width, result) = 600

(* C13 as amended - Scenario 3x3: the call on
   [[250,400,350],[400,600,350],[200,400,250]] does not panic and returns the
   assignment [1,2,0], whose total cost is 400 + 350 + 200 = 950, the minimum
   over all assignments. *)
C13_Sales ==
    (matrix = Sales3x3) =>
        /\ pc # "panic"
        /\ pc = "done" =>
              /\ result = AllSome(<<1, 2, 0>>)
              /\ TotalCost(matrix, width, result) = 950
              /\ MinAssignCost(matrix, height, width) = 950

(* The 3x3 scenario has returned. *)
C13_Witness == pc = "done" /\ matrix = Sales3x3 /\ height = 3 /\ width = 3

(* C14 as stated - Scenario 4x4 with zeros: the call on
   [[0,1,2,3],[4,5,6,0],[0,2,4,5],[3,0,0,9]] returns the assignment
   [1,3,0,2], whose total cost is 5. *)
C14_Original ==
    (pc = "done" /\ matrix = Wikipedia4x4) =>
        /\ result = AllSome(<<1, 3, 0, 2>>)
        /\ TotalCost(matrix, width, result) = 5

(* C14 as amended - Scenario 4x4 with zeros: the call on
   [[0,1,2,3],[4,5,6,0],[0,2,4,5],[3,0,0,9]] does not panic and returns the
   assignment [1,3,0,2], whose total cost is 1 + 0 + 0 + 0 = 1, the minimum
   over all assignments. *)
C14_Wikipedia ==
    (matrix = Wikipedia4x4) =>
        /\ pc # "panic"
        /\ pc = "done" =>
              /\ result = AllSome(<<1, 3, 0, 2>>)
              /\ TotalCost(matrix, width, result) = 1
              /\ MinAssignCost(matrix, height, width) = 1

(* The 4x4 scenario has returned. *)
C14_Witness == pc = "done" /\ matrix = Wikipedia4x4 /\ height = 4 /\ width = 4

----------------------------------------------------------------------------
(* C15 - Determinism: a second call of minimize on the same matrix, height
   and width ends as the first did, with the identical result, whatever the
   first call left behind; and every call ends as the function of its
   arguments alone does. *)
C15_Determinism ==
    Returned(Cur) =>
        /\ IsSome(previous) => Unwrap(previous) = <<pc, result>>
        /\ LET fresh == Minimize(matrix, height, width)
           IN  fresh.pc = pc /\ fresh.result = result

(* The second call on a 3 x 3 matrix has returned after an augmentation. *)
C15_Witness ==
    /\ pc = "done"
    /\ IsSome(previous)
    /\ height = 3
    /\ width = 3
    /\ augments >= 1

----------------------------------------------------------------------------
(* Vocabulary of the properties of the main loop. *)

Rows == 0..(h - 1)

Cols == 0..(w - 1)

StarCount == Cardinality({p \in Rows \X Cols : stars[p[1]][p[2]]})

(* The reduced matrix as Step 1 left it. *)
Reduced == ReduceRows(CopyMatrix(matrix, height, width))

(* The minimum that Step 6 computes in the current state. *)
Delta == MinUncovered(m, h, w, row_cover, col_cover)

(* C16 - Star set is a matching at all times: in every reachable state of a
   solve each working row holds at most one starred cell and each working
   column holds at most one starred cell. *)
C16_StarMatching ==
    /\ \A i \in Rows : \A j1, j2 \in Cols :
          (stars[i][j1] /\ stars[i][j2]) => j1 = j2
    /\ \A j \in Cols : \A i1, i2 \in Rows :
          (stars[i1][j] /\ stars[i2][j]) => i1 = i2

(* An augmentation on three working rows has left at least two stars. *)
C16_Witness ==
    /\ pc = "step3"
    /\ h = 3
    /\ augments >= 1
    /\ StarCount >= 2

(* C17 - Tightness of marks: in every reachable state every starred cell and
   every primed cell holds the value 0 in the reduced matrix, and Step 6
   (Dual Adjust) never changes the value of a cell that is starred or
   primed. *)
C17_Tightness ==
    /\ [](\A i \in Rows, j \in Cols : (stars[i][j] \/ primes[i][j]) => m[i][j] = 0)
    /\ [][Step6 => \A i \in Rows, j \in Cols :
                       (stars[i][j] \/ primes[i][j]) => m'[i][j] = m[i][j]]_vars

(* Step 6 has changed the matrix while a cell was primed and another starred. *)
C17_Witness ==
    /\ pc = "step4"
    /\ m # Reduced
    /\ augments = 0
    /\ \E i \in Rows, j \in Cols : primes[i][j]
    /\ \E i \in Rows, j \in Cols : stars[i][j] /\ ~primes[i][j]

(* C18 - Non-negativity of the reduced matrix: every entry of the reduced
   matrix is >= 0 at the start of every iteration of the main loop; Step 1
   subtracts from no entry more than the entry, and Step 6 subtracts its
   minimum from no entry smaller than the minimum (the entries of covered rows
   having been raised by the minimum first). *)
C18_NonNegative ==
    /\ pc \in {"step3", "step4"} => \A i \in Rows, j \in Cols : m[i][j] >= 0
    /\ pc = "step1" => \A i \in Rows, j \in Cols : m[i][j] >= RowMin(m[i])
    /\ AtStep6(Cur) =>
          \A i \in Rows, j \in Cols \ col_cover :
              m[i][j] + (IF i \in row_cover THEN Delta ELSE 0) >= Delta

(* Step 6 is about to run on three working rows, one of them covered. *)
C18_Witness ==
    /\ AtStep6(Cur)
    /\ h = 3
    /\ row_cover # {}
    /\ col_cover # Cols

(* C19 - Positive delta: every time Step 6 (Dual Adjust) runs, the minimum it
   computes over the cells whose row and column are both uncovered is
   strictly greater than 0. *)
C19_PositiveDelta == AtStep6(Cur) => Delta > 0

(* Step 6 is about to run with a minimum of 2. *)
C19_Witness == AtStep6(Cur) /\ Delta = 2

(* C20 as stated - Per-region effect of Dual Adjust with minimum d: every cell
   in a covered row and covered column has net change 0, every cell in an
   uncovered row and uncovered column decreases by d, and cells in a covered
   row and uncovered column decrease. *)
C20_Original ==
    [][(Step6 /\ pc' # "panic") =>
          \A i \in Rows, j \in Cols :
              /\ (i \in row_cover /\ j \in col_cover) => m'[i][j] = m[i][j]
              /\ (i \notin row_cover /\ j \notin col_cover) => m'[i][j] = m[i][j] - Delta
              /\ (i \in row_cover /\ j \notin col_cover) => m'[i][j] < m[i][j]]_vars

(* C20 as amended - Per-region effect of Dual Adjust with minimum d: every
   cell in a covered row and covered column increases by d, every cell in an
   uncovered row and uncovered column decreases by d, and every cell with
   exactly one of its row and column covered is unchanged (+d - d in a covered
   row and uncovered column, nothing in an uncovered row and covered
   column). *)
C20_RegionEffect ==
    [][(Step6 /\ pc' # "panic") =>
          \A i \in Rows, j \in Cols :
              /\ (i \in row_cover /\ j \in col_cover) => m'[i][j] = m[i][j] + Delta
              /\ (i \notin row_cover /\ j \notin col_cover) => m'[i][j] = m[i][j] - Delta
              /\ (i \in row_cover /\ j \notin col_cover) => m'[i][j] = m[i][j]
              /\ (i \notin row_cover /\ j \in col_cover) => m'[i][j] = m[i][j]]_vars

(* Step 6 has raised a cell whose row and column are both covered. *)
C20_Witness ==
    /\ pc = "step4"
    /\ \E i \in row_cover, j \in col_cover : m[i][j] > Reduced[i][j]
    /\ \E i \in Rows \ row_cover, j \in Cols \ col_cover : m[i][j] < Reduced[i][j]

----------------------------------------------------------------------------
(* The zeros of the reduced matrix whose row and column are both uncovered. *)
UncoveredZeros ==
    {p \in (Rows \ row_cover) \X (Cols \ col_cover) : m[p[1]][p[2]] = 0}

(* The path that Step 5 builds in the current state (None if a lookup fails). *)
PathNow == BuildPath(stars, primes, h, w, <<Unwrap(uncovered)>>)

(* C21 - Progress after Dual Adjust: immediately after every Step 6 there is
   at least one zero whose row and column are both uncovered, so the search
   of Step 4 that follows finds a cell, and Step 6 does not run twice in a
   row. *)
C21_Progress ==
    [][(Step6 /\ pc' # "panic") =>
          /\ pc' = "step4"
          /\ UncoveredZeros' # {}
          /\ IsSome(FindUncoveredZero(m', h', w', row_cover', col_cover'))]_vars

(* Step 6 has just run on three working rows: no cell has been primed yet in
   this phase, so neither Step 4 found a zero nor a row was covered. *)
C21_Witness ==
    /\ pc = "step4"
    /\ ~verify
    /\ h = 3
    /\ primes = NoMarks(h, w)
    /\ UncoveredZeros # {}

(* C22 - Augment grows the matching by one: every execution of Step 5 leaves
   exactly one more starred cell than there was before it, and no other step
   of the main loop changes the stars. *)
C22_AugmentGrows ==
    [][/\ (AtStep5(Cur) /\ pc' # "panic") => StarCount' = StarCount + 1
       /\ (pc \in {"step3", "step4"} \/ AtStep6(Cur) \/ AtCoverRow(Cur)) =>
              stars' = stars]_vars

(* Step 5 has completed the matching of three working rows. *)
C22_Witness ==
    /\ pc = "step3"
    /\ h = 3
    /\ augments >= 1
    /\ StarCount = 3

(* C23 - Phase reset: whenever Step 3 (Verify) is entered the prime set, the
   row cover and the column cover are empty; when Step 3 finishes without
   returning, the column cover is exactly the set of columns that hold a
   starred cell. *)
C23_PhaseReset ==
    /\ pc = "step3" =>
          /\ primes = NoMarks(h, w)
          /\ row_cover = {}
          /\ col_cover = {}
    /\ (pc = "step4" /\ verify) => col_cover = StarredColumns(stars, h, w)

(* Step 3 has run after an augmentation without returning. *)
C23_Witness ==
    /\ pc = "step4"
    /\ verify
    /\ augments >= 1
    /\ col_cover # {}

(* C24 - Augmenting path lookup never fails: when Step 5 builds its path,
   every starred cell found in the column of the last path element lies in a
   row that holds a primed cell, so the lookup of the primed zero succeeds
   (no panic), and the path is finite: at most 2h - 1 cells. *)
C24_PathLookup ==
    /\ pc # "panic"
    /\ AtStep5(Cur) =>
          /\ IsSome(PathNow)
          /\ Len(Unwrap(PathNow)) <= 2 * h - 1
          /\ \A k \in 1..Len(Unwrap(PathNow)) :
                stars[Unwrap(PathNow)[k][1]][Unwrap(PathNow)[k][2]] =>
                    \E jj \in Cols : primes[Unwrap(PathNow)[k][1]][jj]

(* Step 5 is about to build a path that passes through a starred cell. *)
C24_Witness ==
    /\ AtStep5(Cur)
    /\ IsSome(PathNow)
    /\ Len(Unwrap(PathNow)) >= 3

(* C25 - Row-major tie-break: Step 4 primes exactly one cell when a zero with
   uncovered row and uncovered column exists, the one with the smallest row
   index and, within that row, the smallest column index among all such
   zeros; it primes nothing when there is none. *)
C25_RowMajor ==
    [][pc = "step4" =>
          IF UncoveredZeros = {}
          THEN uncovered' = None /\ primes' = primes
          ELSE \E p \in UncoveredZeros :
                  /\ \A q \in UncoveredZeros :
                        p[1] < q[1] \/ (p[1] = q[1] /\ p[2] <= q[2])
                  /\ uncovered' = Some(p)
                  /\ ~primes[p[1]][p[2]]
                  /\ primes' = [primes EXCEPT ![p[1]][p[2]] = TRUE]]_vars

(* Step 4 has primed a zero while a zero of a later row in a smaller column
   was uncovered too. *)
C25_Witness ==
    /\ pc = "branch"
    /\ IsSome(uncovered)
    /\ \E q \in UncoveredZeros :
          q[1] > Unwrap(uncovered)[1] /\ q[2] < Unwrap(uncovered)[2]

(* C26 - Greedy initialization: after Step 2, working row i holds a star at
   column j if and only if j is the smallest column with reduced value 0 in
   row i that holds no star in any row above i; a row with no such column
   holds no star; the row cover is empty. *)
C26_GreedyInit ==
    (pc = "step3" /\ augments = 0) =>
        /\ \A i \in Rows, j \in Cols :
              stars[i][j] <=>
                  /\ m[i][j] = 0
                  /\ \A ii \in 0..(i - 1) : ~stars[ii][j]
                  /\ \A jj \in 0..(j - 1) :
                        m[i][jj] # 0 \/ \E ii \in 0..(i - 1) : stars[ii][jj]
        /\ row_cover = {}

(* Step 2 has starred, in some row, a zero that is not the first zero of the
   row, and has left another row without a star. *)
C26_Witness ==
    /\ pc = "step3"
    /\ augments = 0
    /\ \E i \in Rows, j \in Cols : stars[i][j] /\ \E jj \in 0..(j - 1) : m[i][jj] = 0
    /\ \E i \in Rows : \A j \in Cols : ~stars[i][j]

(* C27 - Terminal condition: for height >= 1 and width >= 1 the call returns
   only from Step 3 (Verify), and Step 3 returns exactly when the number of
   columns holding a starred cell equals h; at that moment every working row
   holds exactly one starred cell, so the extraction does not fail. *)
C27_Terminal ==
    [][/\ (pc' = "done" /\ NonZeroSize) =>
              /\ pc = "step3"
              /\ Cardinality(StarredColumns(stars, h, w)) = h
              /\ \A i \in Rows : \E j \in Cols :
                    stars[i][j] /\ \A jj \in Cols : stars[i][jj] => jj = j
              /\ stars' = stars
       /\ pc = "step3" =>
              (pc' = "done" <=> Cardinality(StarredColumns(stars, h, w)) = h)]_vars

(* A call on two working rows and three working columns has returned from
   Step 3 after an augmentation. *)
C27_Witness ==
    /\ pc = "done"
    /\ h = 2
    /\ w = 3
    /\ ~rotated
    /\ augments >= 1
    /\ Cardinality(StarredColumns(stars, h, w)) = 2

----------------------------------------------------------------------------
(* C28 - No overflow mid-algorithm: for every input whose entries all lie in
   [0, MaxValue], every addition of the minimum to a covered row in Step 6
   yields a value <= MaxValue, and the call does not end in a panic. *)
C28_NoOverflow ==
    /\ pc # "panic"
    /\ AtStep6(Cur) => ~AddOverflows(m, h, w, row_cover, Delta)

----------------------------------------------------------------------------
(* A grid of h rows and w columns. *)
IsGrid(g) == DOMAIN g = Rows /\ \A i \in Rows : DOMAIN g[i] = Cols

(* C29 - Indexing stays in bounds: for height >= 1, width >= 1 and a slice of
   height * width costs, the copy loop reads inside the slice and writes m
   at a row in [0, h) and a column in [0, w); the grids m, stars and primes
   have h rows and w columns; the covers hold only indices inside their
   vectors; the cell found by Step 4, the star looked up in its row and every
   cell of the path of Step 5 are inside the grids; and every write to the
   rotated result uses an index in [0, height). *)
C29_InBounds ==
    NonZeroSize =>
        /\ \A i \in 0..(height - 1), j \in 0..(width - 1) :
              /\ width * i + j < Len(matrix)
              /\ Target(height, width, i, j)[1] \in 0..(WorkingH(height, width) - 1)
              /\ Target(height, width, i, j)[2] \in 0..(WorkingW(height, width) - 1)
        /\ pc # "start" =>
              /\ h = WorkingH(height, width) /\ w = WorkingW(height, width)
              /\ IsGrid(m) /\ IsGrid(stars) /\ IsGrid(primes)
        /\ row_cover \subseteq Rows
        /\ col_cover \subseteq Cols
        /\ IsSome(uncovered) => Unwrap(uncovered) \in Rows \X Cols
        /\ AtCoverRow(Cur) => Unwrap(StarInRow(Cur)) \in Cols
        /\ AtStep5(Cur) =>
              \A k \in 1..Len(Unwrap(PathNow)) : Unwrap(PathNow)[k] \in Rows \X Cols
        /\ (pc = "done" /\ rotated) =>
              /\ Len(result) = height
              /\ \A i \in Rows : Unwrap(StarOfRow(stars, w, i)) \in 0..(height - 1)

(* A rotated 3 x 2 call has returned with a write to the last element of the
   result. *)
C29_Witness ==
    /\ pc = "done"
    /\ rotated
    /\ height = 3
    /\ width = 2
    /\ IsSome(result[height])

(* C30 - The minimum of Step 6 is never the sentinel: whenever Step 6 is
   entered at least one row and at least one column are uncovered, so the
   minimum it computes is the value of a cell of the reduced matrix whose row
   and column are uncovered, not the max_value it starts from. *)
C30_NotSentinel ==
    AtStep6(Cur) =>
        /\ row_cover # Rows
        /\ col_cover # Cols
        /\ \E i \in Rows \ row_cover, j \in Cols \ col_cover : m[i][j] = Delta
        /\ (\A i \in Rows, j \in Cols : m[i][j] < MaxValue) => Delta < MaxValue

(* Step 6 is about to run on a 3 x 3 working matrix with a covered row and a
   covered column, a positive minimum, and a smaller entry in a covered
   column of an uncovered row. *)
C30_Witness ==
    /\ AtStep6(Cur)
    /\ h = 3
    /\ w = 3
    /\ row_cover # {}
    /\ col_cover # {}
    /\ Delta >= 1
    /\ \E i \in Rows \ row_cover, j \in col_cover : m[i][j] < Delta
----------------------------------------------------------------------------
(* The program is between the end of Step 3 and the next Step 5. *)
InPhase == pc \in {"step4", "branch"}

(* C31 - Covers form a minimal line cover of the stars: from the end of
   Step 3 until the next Step 5, every starred cell has exactly one of its
   row and its column covered, every covered row and every covered column
   holds a starred cell, and the number of covered rows plus the number of
   covered columns equals the number of starred cells, which is less
   than h. *)
C31_LineCover ==
    InPhase =>
        /\ \A i \in Rows, j \in Cols :
              stars[i][j] => ((i \in row_cover) # (j \in col_cover))
        /\ \A i \in row_cover : \E j \in Cols : stars[i][j]
        /\ \A j \in col_cover : \E i \in Rows : stars[i][j]
        /\ Cardinality(row_cover) + Cardinality(col_cover) = StarCount
        /\ StarCount < h

(* Step 4 is about to scan a 3 x 3 working matrix with two stars, one covered
   by its row and the other by its column. *)
C31_Witness ==
    /\ pc = "step4"
    /\ h = 3
    /\ w = 3
    /\ Cardinality(row_cover) = 1
    /\ Cardinality(col_cover) = 1
    /\ StarCount = 2


(* The columns of the primed cells of working row i. *)
PrimedIn(i) == {j \in Cols : primes[i][j]}

(* Working row i holds a primed cell and a starred cell. *)
PrimedAndStarred(i) == PrimedIn(i) # {} /\ \E j \in Cols : stars[i][j]

(* Step 4 has primed a zero of working row i and the step that follows it
   has not run yet. *)
JustPrimed(i) == pc = "branch" /\ IsSome(uncovered) /\ Unwrap(uncovered)[1] = i

(* The stars after a flip that takes, on every cell of the path, the value
   of the prime grid: the starred cells of the path lose their star and the
   primed cells gain one. *)
FlippedAlong(path) ==
    [i \in Rows |-> [j \in Cols |->
        IF \E k \in 1..Len(path) : path[k] = <<i, j>>
        THEN primes[i][j]
        ELSE stars[i][j]]]

(* Each row holds at most one primed cell, no cell is both primed and
   starred, and the flip of Step 5 exchanges stars and primes along the path. *)
PrimesUniqueAndDisjoint ==
    /\ \A i \in Rows : \A j1, j2 \in PrimedIn(i) : j1 = j2
    /\ \A i \in Rows, j \in Cols : ~(primes[i][j] /\ stars[i][j])
    /\ AtStep5(Cur) =>
          /\ \A k \in 1..Len(Unwrap(PathNow)) :
                primes[Unwrap(PathNow)[k][1]][Unwrap(PathNow)[k][2]] = (k % 2 = 1)
          /\ \A k \in 1..Len(Unwrap(PathNow)) :
                stars[Unwrap(PathNow)[k][1]][Unwrap(PathNow)[k][2]] = (k % 2 = 0)
          /\ Flip(stars, primes, Unwrap(PathNow)) = FlippedAlong(Unwrap(PathNow))

(* C32 as stated - Primes are unique per row and disjoint from stars: in
   every reachable state each working row holds at most one primed cell,
   every row holding a primed cell and a starred cell is covered, and no cell
   is both primed and starred, so the flip along the path unstars exactly the
   path's starred cells and stars exactly its primed cells. *)
C32_Original ==
    /\ PrimesUniqueAndDisjoint
    /\ \A i \in Rows : PrimedAndStarred(i) => i \in row_cover

(* C32 - Primes are unique per row and disjoint from stars: between the steps
   of the main loop each working row holds at most one primed cell and no
   cell is both primed and starred; every row holding a primed cell and a
   starred cell is covered, except the row of the zero that Step 4 has just
   primed, which the row cover of the same iteration covers next; so the flip
   along the path unstars exactly the path's starred cells and stars exactly
   its primed cells. *)
C32_PrimesDisjoint ==
    /\ PrimesUniqueAndDisjoint
    /\ \A i \in Rows : PrimedAndStarred(i) => (i \in row_cover \/ JustPrimed(i))

(* Step 5 is about to flip a path of three cells on a 3 x 3 working matrix:
   a primed zero, the star of its column, and the prime of that star's
   covered row. *)
C32_Witness ==
    /\ AtStep5(Cur)
    /\ h = 3
    /\ w = 3
    /\ Len(Unwrap(PathNow)) = 3
    /\ \E i \in row_cover : PrimedAndStarred(i)

====
